---- MODULE Spec2Model ----
(***************************************************************************)
(* Media copy orchestrator (MediaCopyBaseState, media_copy.cpp).           *)
(*                                                                         *)
(* Three specifications share the definitions below:                       *)
(*   Spec      NumCallers threads calling TaskDispatch concurrently on one *)
(*             initialized instance (the dispatch sequencer, with every    *)
(*             engine / tile mode / compression mode SurfaceCopy can pass).*)
(*   SpecCopy  one thread running SurfaceCopy stage by stage, TaskDispatch *)
(*             included (the same TaskDispatch actions as Spec).           *)
(*   SpecUnit  CapabilityCheck and CopyEnigneSelect applied to every       *)
(*             input of the bounded input sets.                            *)
(***************************************************************************)
EXTENDS Naturals, Sequences, FiniteSets, TLC

\* ------------------------------------------------------------------ bounds
\* threads sharing the instance; each makes one call
NumCallers == 2

Callers == 1..NumCallers

\* ------------------------------------------------------------- enumerations
MOS_STATUS_SUCCESS == "MOS_STATUS_SUCCESS"
MOS_STATUS_INVALID_PARAMETER == "MOS_STATUS_INVALID_PARAMETER"
MOS_STATUS_INVALID_HANDLE == "MOS_STATUS_INVALID_HANDLE"
MOS_STATUS_NULL_POINTER == "MOS_STATUS_NULL_POINTER"
MOS_STATUS_UNKNOWN == "MOS_STATUS_UNKNOWN"

\* what an external collaborator (resource query, platform predicate,
\* decompression hook, engine executor) may return
ExternalStatus == {MOS_STATUS_SUCCESS, MOS_STATUS_UNKNOWN}

MCPY_ENGINE_VEBOX == "MCPY_ENGINE_VEBOX"
MCPY_ENGINE_BLT == "MCPY_ENGINE_BLT"
MCPY_ENGINE_RENDER == "MCPY_ENGINE_RENDER"
Engines == {MCPY_ENGINE_VEBOX, MCPY_ENGINE_BLT, MCPY_ENGINE_RENDER}

MCPY_METHOD_PERFORMANCE == "MCPY_METHOD_PERFORMANCE"
MCPY_METHOD_BALANCE == "MCPY_METHOD_BALANCE"
MCPY_METHOD_POWERSAVING == "MCPY_METHOD_POWERSAVING"
MCPY_METHOD_DEFAULT == "MCPY_METHOD_DEFAULT"
\* a preferMethod outside the enumeration (the switch's default branch)
MCPY_METHOD_OTHER == "MCPY_METHOD_OTHER"
Preferences == {MCPY_METHOD_DEFAULT, MCPY_METHOD_PERFORMANCE, MCPY_METHOD_BALANCE,
                MCPY_METHOD_POWERSAVING}
Methods == Preferences \cup {MCPY_METHOD_OTHER}

\* the value 4 of m_MCPYForceMode (bypass the copy engines)
MCPY_FORCE_BYPASS == "4"
ForceModes == Preferences \cup {MCPY_FORCE_BYPASS}

MOS_TILE_LINEAR == "MOS_TILE_LINEAR"
MOS_TILE_Y == "MOS_TILE_Y"
TileModes == {MOS_TILE_LINEAR, MOS_TILE_Y}

MOS_MMC_DISABLED == "MOS_MMC_DISABLED"
MOS_MMC_RC == "MOS_MMC_RC"
MOS_MMC_MC == "MOS_MMC_MC"
CompressionModes == {MOS_MMC_DISABLED, MOS_MMC_RC, MOS_MMC_MC}

MCPY_CPMODE_CLEAR == "MCPY_CPMODE_CLEAR"
MCPY_CPMODE_CP == "MCPY_CPMODE_CP"
CpModes == {MCPY_CPMODE_CLEAR, MCPY_CPMODE_CP}

\* MCPY_STATE_PARAMS without the resource handle
MCPY_STATE_PARAMS == [CompressionMode : CompressionModes, TileMode : TileModes,
                      CpMode : CpModes, bAuxSuface : BOOLEAN]
\* MCPY_ENGINE_CAPS (the reserved bit field is never read)
MCPY_ENGINE_CAPS == [engineVebox : BOOLEAN, engineBlt : BOOLEAN, engineRender : BOOLEAN]

\* the initializers of SurfaceCopy's locals
InitStateParams == [CompressionMode |-> MOS_MMC_DISABLED, TileMode |-> MOS_TILE_LINEAR,
                    CpMode |-> MCPY_CPMODE_CLEAR, bAuxSuface |-> FALSE]
InitEngineCaps == [engineVebox |-> TRUE, engineBlt |-> TRUE, engineRender |-> TRUE]

\* ------------------------------------------------------------ CapabilityCheck
\* mutant: the legal check with source and destination swapped
IllegalCpUsage_Swapped(mcpySrc, mcpyDst, allowCPBltCopy) ==
    mcpySrc.CpMode = MCPY_CPMODE_CLEAR /\ mcpyDst.CpMode = MCPY_CPMODE_CP /\ ~allowCPBltCopy

\* mutant: the legal check does not look at the allow flag
IllegalCpUsage_NoAllow(mcpySrc, mcpyDst, allowCPBltCopy) ==
    mcpySrc.CpMode = MCPY_CPMODE_CP /\ mcpyDst.CpMode = MCPY_CPMODE_CLEAR

\* the legal check: protected source, clear destination, downgrade not allowed
IllegalCpUsage(mcpySrc, mcpyDst, allowCPBltCopy) ==
    mcpySrc.CpMode = MCPY_CPMODE_CP /\ mcpyDst.CpMode = MCPY_CPMODE_CLEAR /\ ~allowCPBltCopy

\* mutant: the vebox cap check without the auxiliary-surface condition
VeboxCapCheck_NoAux(caps, mcpySrc, veboxFormatOk) ==
    IF ~veboxFormatOk THEN [caps EXCEPT !.engineVebox = FALSE] ELSE caps

\* vebox cap check: the format check, or an auxiliary source, revokes Vebox
VeboxCapCheck(caps, mcpySrc, veboxFormatOk) ==
    IF ~veboxFormatOk \/ mcpySrc.bAuxSuface
    THEN [caps EXCEPT !.engineVebox = FALSE]
    ELSE caps

\* mutant: the Eu cap check tests the auxiliary flag only
RenderCapCheck_NoFormat(caps, mcpySrc, renderFormatOk) ==
    IF mcpySrc.bAuxSuface THEN [caps EXCEPT !.engineRender = FALSE] ELSE caps

\* Eu cap check: the format check, or an auxiliary source, revokes Render
RenderCapCheck(caps, mcpySrc, renderFormatOk) ==
    IF ~renderFormatOk \/ mcpySrc.bAuxSuface
    THEN [caps EXCEPT !.engineRender = FALSE]
    ELSE caps

\* mutant: the all-ineligible test with the negation of engineRender lost
NoEngine_RenderTypo(caps) == ~caps.engineVebox /\ ~caps.engineBlt /\ caps.engineRender

\* no engine is left to perform the copy
NoEngine(caps) == ~caps.engineVebox /\ ~caps.engineBlt /\ ~caps.engineRender

\* mutant: the status of FeatureSupport is not looked at
CapabilityCheck_NoAbort(mcpySrc, mcpyDst, allowCPBltCopy, fs, veboxFormatOk, renderFormatOk) ==
    IF IllegalCpUsage(mcpySrc, mcpyDst, allowCPBltCopy)
    THEN [status |-> MOS_STATUS_INVALID_PARAMETER, caps |-> fs.caps,
          evaluated |-> <<"FeatureSupport", "legal">>]
    ELSE LET caps1 == VeboxCapCheck(fs.caps, mcpySrc, veboxFormatOk)
             caps2 == RenderCapCheck(caps1, mcpySrc, renderFormatOk)
             all == <<"FeatureSupport", "legal", "IsVeboxCopySupported",
                      "RenderFormatSupportCheck", "engines">>
         IN  IF NoEngine(caps2)
             THEN [status |-> MOS_STATUS_INVALID_PARAMETER, caps |-> caps2, evaluated |-> all]
             ELSE [status |-> MOS_STATUS_SUCCESS, caps |-> caps2, evaluated |-> all]

\* fs is what FeatureSupport returned: its status and the caps it left behind;
\* veboxFormatOk / renderFormatOk are the results of IsVeboxCopySupported and
\* RenderFormatSupportCheck.  `evaluated' lists the checks that ran.
CapabilityCheck(mcpySrc, mcpyDst, allowCPBltCopy, fs, veboxFormatOk, renderFormatOk) ==
    IF fs.status # MOS_STATUS_SUCCESS
    THEN [status |-> fs.status, caps |-> fs.caps, evaluated |-> <<"FeatureSupport">>]
    ELSE IF IllegalCpUsage(mcpySrc, mcpyDst, allowCPBltCopy)
    THEN [status |-> MOS_STATUS_INVALID_PARAMETER, caps |-> fs.caps,
          evaluated |-> <<"FeatureSupport", "legal">>]
    ELSE LET caps1 == VeboxCapCheck(fs.caps, mcpySrc, veboxFormatOk)
             caps2 == RenderCapCheck(caps1, mcpySrc, renderFormatOk)
             all == <<"FeatureSupport", "legal", "IsVeboxCopySupported",
                      "RenderFormatSupportCheck", "engines">>
         IN  IF NoEngine(caps2)
             THEN [status |-> MOS_STATUS_INVALID_PARAMETER, caps |-> caps2, evaluated |-> all]
             ELSE [status |-> MOS_STATUS_SUCCESS, caps |-> caps2, evaluated |-> all]

\* PreCheckCpCopy of the base class
PreCheckCpCopy(mcpySrc, mcpyDst, preferMethod) == MOS_STATUS_SUCCESS

\* ----------------------------------------------------------- CopyEnigneSelect
\* mutant: the Balance row tries Blt before Vebox
SelectByPreference_BalanceBltFirst(preferMethod, mcpyEngine, caps) ==
    CASE preferMethod \in {MCPY_METHOD_PERFORMANCE, MCPY_METHOD_DEFAULT} ->
            IF caps.engineRender THEN MCPY_ENGINE_RENDER
            ELSE IF caps.engineBlt THEN MCPY_ENGINE_BLT ELSE MCPY_ENGINE_VEBOX
      [] preferMethod = MCPY_METHOD_BALANCE ->
            IF caps.engineBlt THEN MCPY_ENGINE_BLT
            ELSE IF caps.engineVebox THEN MCPY_ENGINE_VEBOX ELSE MCPY_ENGINE_RENDER
      [] preferMethod = MCPY_METHOD_POWERSAVING ->
            IF caps.engineBlt THEN MCPY_ENGINE_BLT
            ELSE IF caps.engineVebox THEN MCPY_ENGINE_VEBOX ELSE MCPY_ENGINE_RENDER
      [] OTHER -> mcpyEngine

\* the switch on preferMethod; mcpyEngine is the value the caller passed in
SelectByPreference(preferMethod, mcpyEngine, caps) ==
    CASE preferMethod \in {MCPY_METHOD_PERFORMANCE, MCPY_METHOD_DEFAULT} ->
            IF caps.engineRender THEN MCPY_ENGINE_RENDER
            ELSE IF caps.engineBlt THEN MCPY_ENGINE_BLT ELSE MCPY_ENGINE_VEBOX
      [] preferMethod = MCPY_METHOD_BALANCE ->
            IF caps.engineVebox THEN MCPY_ENGINE_VEBOX
            ELSE IF caps.engineBlt THEN MCPY_ENGINE_BLT ELSE MCPY_ENGINE_RENDER
      [] preferMethod = MCPY_METHOD_POWERSAVING ->
            IF caps.engineBlt THEN MCPY_ENGINE_BLT
            ELSE IF caps.engineVebox THEN MCPY_ENGINE_VEBOX ELSE MCPY_ENGINE_RENDER
      [] OTHER -> mcpyEngine

\* mutant: the forced PowerSaving and Balance values with their engines exchanged
ApplyForceMode_Exchanged(forceMode, mcpyEngine) ==
    IF forceMode = MCPY_METHOD_PERFORMANCE
    THEN [status |-> MOS_STATUS_SUCCESS, engine |-> MCPY_ENGINE_RENDER]
    ELSE IF forceMode = MCPY_METHOD_POWERSAVING
    THEN [status |-> MOS_STATUS_SUCCESS, engine |-> MCPY_ENGINE_VEBOX]
    ELSE IF forceMode = MCPY_METHOD_BALANCE
    THEN [status |-> MOS_STATUS_SUCCESS, engine |-> MCPY_ENGINE_BLT]
    ELSE IF forceMode = MCPY_FORCE_BYPASS
    THEN [status |-> MOS_STATUS_INVALID_PARAMETER, engine |-> mcpyEngine]
    ELSE [status |-> MOS_STATUS_SUCCESS, engine |-> mcpyEngine]

\* the m_MCPYForceMode block of debug / release-internal builds
ApplyForceMode(forceMode, mcpyEngine) ==
    IF forceMode = MCPY_METHOD_PERFORMANCE
    THEN [status |-> MOS_STATUS_SUCCESS, engine |-> MCPY_ENGINE_RENDER]
    ELSE IF forceMode = MCPY_METHOD_POWERSAVING
    THEN [status |-> MOS_STATUS_SUCCESS, engine |-> MCPY_ENGINE_BLT]
    ELSE IF forceMode = MCPY_METHOD_BALANCE
    THEN [status |-> MOS_STATUS_SUCCESS, engine |-> MCPY_ENGINE_VEBOX]
    ELSE IF forceMode = MCPY_FORCE_BYPASS
    THEN [status |-> MOS_STATUS_INVALID_PARAMETER, engine |-> mcpyEngine]
    ELSE [status |-> MOS_STATUS_SUCCESS, engine |-> mcpyEngine]

CopyEnigneSelect(preferMethod, mcpyEngine, caps, debug, forceMode) ==
    LET chosen == SelectByPreference(preferMethod, mcpyEngine, caps)
    IN  IF debug
        THEN ApplyForceMode(forceMode, chosen)
        ELSE [status |-> MOS_STATUS_SUCCESS, engine |-> chosen]


\* ------------------------------------------------------------------- state
VARIABLES
    debugBuild,         \* _DEBUG || _RELEASE_INTERNAL
    alive,              \* FALSE once the destructor has run
    m_inUseGPUMutex,    \* [created, owner, id]: owner is the caller holding it, or
                        \* NoOwner; id tells the mutexes MosCreateMutex returned apart
    m_surfaceDumper,    \* TRUE iff the dump collaborator exists (non-null)
    m_frameNum,         \* m_surfaceDumper->m_frameNum
    m_MCPYForceMode,
    m_allowCPBltCopy,
    pc,                 \* per caller: position inside TaskDispatch
    td,                 \* per caller: TaskDispatch's parameters and locals
    log,                \* per caller: lock / decompression / executor events of the call
    sc,                 \* per caller: SurfaceCopy's position, parameters and locals
    stages,             \* per caller: the stages SurfaceCopy ran, with their status
    unit,               \* SpecUnit: the last function application, inputs and result
    vp                  \* the VpPlatformInterface object: its kernel lists, its
                        \* delayed feature set, the kernels loaded, the last call

instance == <<debugBuild, alive, m_inUseGPUMutex, m_surfaceDumper, m_frameNum,
              m_MCPYForceMode, m_allowCPBltCopy>>
vars == <<debugBuild, alive, m_inUseGPUMutex, m_surfaceDumper, m_frameNum, m_MCPYForceMode,
          m_allowCPBltCopy, pc, td, log, sc, stages, unit, vp>>

\* a VpPlatformInterface with no kernel entry added yet
VpConstructed ==
    [m_vpIsaKernelBinaryList |-> <<>>, m_vpDelayLoadedBinaryList |-> <<>>,
     m_vpDelayLoadedFeatureSet |-> <<>>, kernels |-> <<>>, aborted |-> FALSE,
     call |-> [fn |-> "none"]]

NoOwner == 0
NoMutex == 0
NoStatus == "none"

Event(ev, arg) == [ev |-> ev, arg |-> arg]

\* the sources the concurrent callers dispatch: TaskDispatch reads only whether
\* the source is tiled and compressed (SpecCopy dispatches every tile mode and
\* compression mode)
DispatchSources ==
    {s \in MCPY_STATE_PARAMS :
        /\ s.CpMode = MCPY_CPMODE_CLEAR /\ ~s.bAuxSuface
        /\ s.CompressionMode \in {MOS_MMC_DISABLED, MOS_MMC_MC}
        /\ (s.TileMode = MOS_TILE_LINEAR) <=> (s.CompressionMode = MOS_MMC_DISABLED)}

TdIdle == [mcpySrc |-> InitStateParams, mcpyEngine |-> MCPY_ENGINE_BLT,
           eStatus |-> MOS_STATUS_SUCCESS, frameNum |-> 0, ret |-> NoStatus]
ScIdle == [pc |-> "sc_idle", preferMethod |-> MCPY_METHOD_DEFAULT,
           TileType |-> MOS_TILE_LINEAR,
           mcpySrc |-> InitStateParams, mcpyDst |-> InitStateParams,
           mcpyEngine |-> MCPY_ENGINE_BLT, mcpyEngineCaps |-> InitEngineCaps,
           ret |-> NoStatus]

\* the values the state takes
TypeOK ==
    /\ debugBuild \in BOOLEAN
    /\ alive \in BOOLEAN
    /\ m_inUseGPUMutex \in [created : BOOLEAN, owner : Callers \cup {NoOwner}, id : {NoMutex, 1}]
    /\ m_surfaceDumper \in BOOLEAN
    /\ m_frameNum \in 0..NumCallers
    /\ m_MCPYForceMode \in ForceModes
    /\ m_allowCPBltCopy \in BOOLEAN
    /\ pc \in [Callers -> {"idle", "td_predump", "td_switch", "td_decomp", "td_decomp_failed",
                           "td_executor", "td_in_executor", "td_unlock", "td_postdump",
                           "td_frame_write", "returned", "aux_returned"}]
    /\ \A c \in Callers :
          /\ td[c].mcpySrc \in MCPY_STATE_PARAMS
          /\ td[c].mcpyEngine \in Engines
          /\ td[c].eStatus \in ExternalStatus
          /\ td[c].ret \in ExternalStatus \cup {NoStatus, MOS_STATUS_INVALID_HANDLE}
          /\ sc[c].mcpySrc \in MCPY_STATE_PARAMS
          /\ sc[c].mcpyDst \in MCPY_STATE_PARAMS
          /\ sc[c].mcpyEngine \in Engines
          /\ sc[c].mcpyEngineCaps \in MCPY_ENGINE_CAPS
          /\ sc[c].preferMethod \in Methods
          /\ Len(log[c]) <= 6
          /\ Len(stages[c]) <= 8

\* ------------------------------------------------------------- Initialize
\* The instance after its constructor and a successful Initialize: the mutex
\* exists and is free; a debug build owns a dumper and has read the force mode
\* from the user setting, a release build has neither.
Initialized(debug, forceMode, allow) ==
    /\ debugBuild = debug
    /\ alive = TRUE
    /\ m_inUseGPUMutex = [created |-> TRUE, owner |-> NoOwner, id |-> 1]
    /\ m_surfaceDumper = debug
    /\ m_frameNum = 0
    /\ m_MCPYForceMode = (IF debug THEN forceMode ELSE MCPY_METHOD_DEFAULT)
    /\ m_allowCPBltCopy = allow

Quiet ==
    /\ pc = [c \in Callers |-> "idle"]
    /\ td = [c \in Callers |-> TdIdle]
    /\ log = [c \in Callers |-> <<>>]
    /\ sc = [c \in Callers |-> ScIdle]
    /\ stages = [c \in Callers |-> <<>>]
    /\ unit = [fn |-> "none"]
    /\ vp = VpConstructed

\* --------------------------------------------------------------- mutex
\* mutant: a lock that does not wait for the owner to release it
MosLockMutexEnabled_NoWait(c) == m_inUseGPUMutex.created

MosLockMutexEnabled(c) == m_inUseGPUMutex.created /\ m_inUseGPUMutex.owner = NoOwner
MosLockMutex(c) == m_inUseGPUMutex' = [m_inUseGPUMutex EXCEPT !.owner = c]
MosUnlockMutex(c) == m_inUseGPUMutex' = [m_inUseGPUMutex EXCEPT !.owner = NoOwner]

\* ------------------------------------------------------------ TaskDispatch
\* mutant: only media compression triggers the decompression
NeedDecompress_OnlyMC(mcpySrc) ==
    mcpySrc.TileMode # MOS_TILE_LINEAR /\ mcpySrc.CompressionMode = MOS_MMC_MC

\* mutant: the tile mode is not looked at
NeedDecompress_AnyTile(mcpySrc) == mcpySrc.CompressionMode # MOS_MMC_DISABLED

\* the Blt branch decompresses a tiled, compressed source first
NeedDecompress(mcpySrc) ==
    mcpySrc.TileMode # MOS_TILE_LINEAR /\ mcpySrc.CompressionMode # MOS_MMC_DISABLED

\* the executor the switch calls for an engine
ExecutorOf(mcpyEngine) ==
    CASE mcpyEngine = MCPY_ENGINE_VEBOX -> "MediaVeboxCopy"
      [] mcpyEngine = MCPY_ENGINE_BLT -> "MediaBltCopy"
      [] mcpyEngine = MCPY_ENGINE_RENDER -> "MediaRenderCopy"

\* entry of TaskDispatch(mcpySrc, mcpyDst, mcpyEngine): eStatus = SUCCESS
TaskDispatchEnter(c, mcpySrc, mcpyEngine) ==
    /\ pc' = [pc EXCEPT ![c] = "td_predump"]
    /\ td' = [td EXCEPT ![c] = [TdIdle EXCEPT !.mcpySrc = mcpySrc, !.mcpyEngine = mcpyEngine]]
    /\ log' = [log EXCEPT ![c] = <<>>]

\* a caller of the instance invokes TaskDispatch
CallTaskDispatch(c) ==
    /\ pc[c] = "idle"
    /\ sc[c].pc = "sc_idle"
    /\ \E mcpySrc \in DispatchSources, mcpyEngine \in Engines :
           TaskDispatchEnter(c, mcpySrc, mcpyEngine)
    /\ UNCHANGED <<instance, sc, stages, unit, vp>>

\* the pre-copy dump of the source (debug builds with a dumper), then
\* MosLockMutex: blocks until the mutex is free
LockMutex(c) ==
    /\ pc[c] = "td_predump"
    /\ MosLockMutexEnabled(c)
    /\ MosLockMutex(c)
    /\ pc' = [pc EXCEPT ![c] = "td_switch"]
    /\ log' = [log EXCEPT ![c] = Append(@, Event("lock", "m_inUseGPUMutex"))]
    /\ UNCHANGED <<debugBuild, alive, m_surfaceDumper, m_frameNum, m_MCPYForceMode,
                   m_allowCPBltCopy, td, sc, stages, unit, vp>>

\* mutant: the decompression is placed before the switch, for every engine
DecompCall_AnyEngine(c) ==
    /\ pc[c] = "td_switch"
    /\ NeedDecompress(td[c].mcpySrc)
    /\ pc' = [pc EXCEPT ![c] = "td_decomp"]
    /\ log' = [log EXCEPT ![c] = Append(@, Event("call", "pfnDecompResource"))]
    /\ UNCHANGED <<instance, td, sc, stages, unit, vp>>

\* case MCPY_ENGINE_BLT with a tiled compressed source: call pfnDecompResource
DecompCall(c) ==
    /\ pc[c] = "td_switch"
    /\ td[c].mcpyEngine = MCPY_ENGINE_BLT
    /\ NeedDecompress(td[c].mcpySrc)
    /\ pc' = [pc EXCEPT ![c] = "td_decomp"]
    /\ log' = [log EXCEPT ![c] = Append(@, Event("call", "pfnDecompResource"))]
    /\ UNCHANGED <<instance, td, sc, stages, unit, vp>>

\* mutant: the status of pfnDecompResource is not tested
DecompReturn_Unchecked(c) ==
    /\ pc[c] = "td_decomp"
    /\ \E st \in ExternalStatus :
        /\ td' = [td EXCEPT ![c].eStatus = st]
        /\ log' = [log EXCEPT ![c] = Append(@, Event("ret", st))]
        /\ pc' = [pc EXCEPT ![c] = "td_executor"]
    /\ UNCHANGED <<instance, sc, stages, unit, vp>>

\* pfnDecompResource returns: on failure go to the unlock-and-return branch
DecompReturn(c) ==
    /\ pc[c] = "td_decomp"
    /\ \E st \in ExternalStatus :
        /\ td' = [td EXCEPT ![c].eStatus = st]
        /\ log' = [log EXCEPT ![c] = Append(@, Event("ret", st))]
        /\ pc' = [pc EXCEPT ![c] =
                    IF st # MOS_STATUS_SUCCESS THEN "td_decomp_failed" ELSE "td_executor"]
    /\ UNCHANGED <<instance, sc, stages, unit, vp>>

\* mutant: the decompression-failure branch returns without unlocking
DecompFailedReturn_Leak(c) ==
    /\ pc[c] = "td_decomp_failed"
    /\ td' = [td EXCEPT ![c].ret = td[c].eStatus]
    /\ pc' = [pc EXCEPT ![c] = "returned"]
    /\ UNCHANGED <<instance, log, sc, stages, unit, vp>>

\* decompression failed: MosUnlockMutex, then MCPY_CHK_STATUS_RETURN(eStatus)
DecompFailedReturn(c) ==
    /\ pc[c] = "td_decomp_failed"
    /\ MosUnlockMutex(c)
    /\ log' = [log EXCEPT ![c] = Append(@, Event("unlock", "m_inUseGPUMutex"))]
    /\ td' = [td EXCEPT ![c].ret = td[c].eStatus]
    /\ pc' = [pc EXCEPT ![c] = "returned"]
    /\ UNCHANGED <<debugBuild, alive, m_surfaceDumper, m_frameNum, m_MCPYForceMode,
                   m_allowCPBltCopy, sc, stages, unit, vp>>

\* the switch calls the engine's executor
ExecutorCall(c) ==
    /\ \/ pc[c] = "td_executor"
       \/ /\ pc[c] = "td_switch"
          /\ ~(td[c].mcpyEngine = MCPY_ENGINE_BLT /\ NeedDecompress(td[c].mcpySrc))
    /\ pc' = [pc EXCEPT ![c] = "td_in_executor"]
    /\ log' = [log EXCEPT ![c] = Append(@, Event("call", ExecutorOf(td[c].mcpyEngine)))]
    /\ UNCHANGED <<instance, td, sc, stages, unit, vp>>

\* mutant: a failed executor is called again
ExecutorReturn_Retry(c) ==
    /\ pc[c] = "td_in_executor"
    /\ \E st \in ExternalStatus :
        /\ td' = [td EXCEPT ![c].eStatus = st]
        /\ log' = [log EXCEPT ![c] = Append(@, Event("ret", st))]
        /\ pc' = [pc EXCEPT ![c] =
                    IF st # MOS_STATUS_SUCCESS THEN "td_executor" ELSE "td_unlock"]
    /\ UNCHANGED <<instance, sc, stages, unit, vp>>

\* the executor returns its status into eStatus
ExecutorReturn(c) ==
    /\ pc[c] = "td_in_executor"
    /\ \E st \in ExternalStatus :
        /\ td' = [td EXCEPT ![c].eStatus = st]
        /\ log' = [log EXCEPT ![c] = Append(@, Event("ret", st))]
    /\ pc' = [pc EXCEPT ![c] = "td_unlock"]
    /\ UNCHANGED <<instance, sc, stages, unit, vp>>

\* mutant: the telemetry report and the post-copy dump run before the unlock
UnlockMutex_AfterDump(c) ==
    /\ pc[c] = "td_unlock"
    /\ log' = [log EXCEPT ![c] = Append(@, Event("unlock", "m_inUseGPUMutex"))]
    /\ pc' = [pc EXCEPT ![c] = "td_postdump"]
    /\ UNCHANGED <<instance, td, sc, stages, unit, vp>>

\* MosUnlockMutex after the switch
UnlockMutex(c) ==
    /\ pc[c] = "td_unlock"
    /\ MosUnlockMutex(c)
    /\ log' = [log EXCEPT ![c] = Append(@, Event("unlock", "m_inUseGPUMutex"))]
    /\ pc' = [pc EXCEPT ![c] = "td_postdump"]
    /\ UNCHANGED <<debugBuild, alive, m_surfaceDumper, m_frameNum, m_MCPYForceMode,
                   m_allowCPBltCopy, td, sc, stages, unit, vp>>

\* telemetry report and post-copy dump; with a dumper, m_frameNum++ begins by
\* reading the counter.  Without a dumper TaskDispatch returns eStatus.
PostDump(c) ==
    /\ pc[c] = "td_postdump"
    /\ IF debugBuild /\ m_surfaceDumper
       THEN /\ td' = [td EXCEPT ![c].frameNum = m_frameNum]
            /\ pc' = [pc EXCEPT ![c] = "td_frame_write"]
       ELSE /\ td' = [td EXCEPT ![c].ret = td[c].eStatus]
            /\ pc' = [pc EXCEPT ![c] = "returned"]
    /\ UNCHANGED <<instance, log, sc, stages, unit, vp>>

\* mutant: the status of the post-copy dump replaces eStatus
FrameWrite_DumpStatus(c) ==
    /\ pc[c] = "td_frame_write"
    /\ m_frameNum' = td[c].frameNum + 1
    /\ td' = [td EXCEPT ![c].ret = MOS_STATUS_SUCCESS]
    /\ pc' = [pc EXCEPT ![c] = "returned"]
    /\ UNCHANGED <<debugBuild, alive, m_inUseGPUMutex, m_surfaceDumper, m_MCPYForceMode,
                   m_allowCPBltCopy, log, sc, stages, unit, vp>>

\* m_frameNum++ stores the incremented value; TaskDispatch returns eStatus
FrameWrite(c) ==
    /\ pc[c] = "td_frame_write"
    /\ m_frameNum' = td[c].frameNum + 1
    /\ td' = [td EXCEPT ![c].ret = td[c].eStatus]
    /\ pc' = [pc EXCEPT ![c] = "returned"]
    /\ UNCHANGED <<debugBuild, alive, m_inUseGPUMutex, m_surfaceDumper, m_MCPYForceMode,
                   m_allowCPBltCopy, log, sc, stages, unit, vp>>

TaskDispatchStep(c) ==
    \/ LockMutex(c)
    \/ DecompCall(c)
    \/ DecompReturn(c)
    \/ DecompFailedReturn(c)
    \/ ExecutorCall(c)
    \/ ExecutorReturn(c)
    \/ UnlockMutex(c)
    \/ PostDump(c)
    \/ FrameWrite(c)

\* ----------------------------------------------------------------- AuxCopy
\* mutant: the base class reports the aux copy as done
AuxCopy_Success(c) ==
    /\ pc[c] = "idle"
    /\ sc[c].pc = "sc_idle"
    /\ td' = [td EXCEPT ![c].ret = MOS_STATUS_SUCCESS]
    /\ pc' = [pc EXCEPT ![c] = "aux_returned"]
    /\ UNCHANGED <<instance, log, sc, stages, unit, vp>>

\* a caller invokes AuxCopy(src, dst) of the base class: an assert message and
\* the status, nothing else
AuxCopy(c) ==
    /\ pc[c] = "idle"
    /\ sc[c].pc = "sc_idle"
    /\ td' = [td EXCEPT ![c].ret = MOS_STATUS_INVALID_HANDLE]
    /\ pc' = [pc EXCEPT ![c] = "aux_returned"]
    /\ UNCHANGED <<instance, log, sc, stages, unit, vp>>

\* ------------------------------------------------------------------- Spec
\* TaskDispatch does not read m_MCPYForceMode or m_allowCPBltCopy
Init ==
    /\ \E debug \in BOOLEAN : Initialized(debug, MCPY_METHOD_DEFAULT, FALSE)
    /\ Quiet

Next == \E c \in Callers : CallTaskDispatch(c) \/ TaskDispatchStep(c) \/ AuxCopy(c)

Spec == Init /\ [][Next]_vars


\* ------------------------------------------------------------- SurfaceCopy
Stage(name, status) == [stage |-> name, status |-> status]

\* MCPY_CHK_STATUS_RETURN: a failed stage returns its status from SurfaceCopy
ScReturn(c, name, st) ==
    /\ sc' = [sc EXCEPT ![c].pc = "sc_returned", ![c].ret = st]
    /\ stages' = [stages EXCEPT ![c] = Append(@, Stage(name, st))]

ScContinue(c, name, frame, next) ==
    /\ sc' = [sc EXCEPT ![c] = [frame EXCEPT !.pc = next]]
    /\ stages' = [stages EXCEPT ![c] = Append(@, Stage(name, MOS_STATUS_SUCCESS))]

\* a caller enters SurfaceCopy(src, dst, preferMethod): the locals get their
\* initializers
SurfaceCopyCall(c) ==
    /\ sc[c].pc = "sc_idle"
    /\ pc[c] = "idle"
    /\ \E preferMethod \in Methods :
           sc' = [sc EXCEPT ![c] = [ScIdle EXCEPT !.pc = "sc_src_info",
                                                  !.preferMethod = preferMethod]]
    /\ UNCHANGED <<instance, pc, td, log, stages, unit, vp>>

\* pfnGetResourceInfo(src): the tile type of the source
GetSrcResourceInfo(c) ==
    /\ sc[c].pc = "sc_src_info"
    /\ \E st \in ExternalStatus :
          IF st # MOS_STATUS_SUCCESS
          THEN ScReturn(c, "src.pfnGetResourceInfo", st)
          ELSE \E tile \in TileModes :
                  ScContinue(c, "src.pfnGetResourceInfo",
                             [sc[c] EXCEPT !.TileType = tile], "sc_src_mmc")
    /\ UNCHANGED <<instance, pc, td, log, unit, vp>>

\* pfnGetMemoryCompressionMode(src), then CpMode, TileMode, OsRes of mcpySrc
GetSrcCompressionMode(c) ==
    /\ sc[c].pc = "sc_src_mmc"
    /\ \E st \in ExternalStatus :
          IF st # MOS_STATUS_SUCCESS
          THEN ScReturn(c, "src.pfnGetMemoryCompressionMode", st)
          ELSE \E mmc \in CompressionModes, cp \in CpModes :
                  ScContinue(c, "src.pfnGetMemoryCompressionMode",
                             [sc[c] EXCEPT !.mcpySrc.CompressionMode = mmc,
                                           !.mcpySrc.CpMode = cp,
                                           !.mcpySrc.TileMode = sc[c].TileType],
                             "sc_dst_info")
    /\ UNCHANGED <<instance, pc, td, log, unit, vp>>

\* pfnGetResourceInfo(dst).  The core never reads the destination's tile and
\* compression mode: they keep their initializers here.
GetDstResourceInfo(c) ==
    /\ sc[c].pc = "sc_dst_info"
    /\ \E st \in ExternalStatus :
          IF st # MOS_STATUS_SUCCESS
          THEN ScReturn(c, "dst.pfnGetResourceInfo", st)
          ELSE ScContinue(c, "dst.pfnGetResourceInfo",
                          [sc[c] EXCEPT !.TileType = MOS_TILE_LINEAR], "sc_dst_mmc")
    /\ UNCHANGED <<instance, pc, td, log, unit, vp>>

\* pfnGetMemoryCompressionMode(dst), then CpMode, TileMode, OsRes of mcpyDst
GetDstCompressionMode(c) ==
    /\ sc[c].pc = "sc_dst_mmc"
    /\ \E st \in ExternalStatus :
          IF st # MOS_STATUS_SUCCESS
          THEN ScReturn(c, "dst.pfnGetMemoryCompressionMode", st)
          ELSE \E cp \in CpModes :
                  ScContinue(c, "dst.pfnGetMemoryCompressionMode",
                             [sc[c] EXCEPT !.mcpyDst.CpMode = cp,
                                           !.mcpyDst.TileMode = sc[c].TileType],
                             "sc_precheck")
    /\ UNCHANGED <<instance, pc, td, log, unit, vp>>

\* MCPY_CHK_STATUS_RETURN(PreCheckCpCopy(mcpySrc, mcpyDst, preferMethod))
PreCheck(c) ==
    /\ sc[c].pc = "sc_precheck"
    /\ LET st == PreCheckCpCopy(sc[c].mcpySrc, sc[c].mcpyDst, sc[c].preferMethod)
       IN  IF st # MOS_STATUS_SUCCESS
           THEN ScReturn(c, "PreCheckCpCopy", st)
           ELSE ScContinue(c, "PreCheckCpCopy", sc[c], "sc_caps")
    /\ UNCHANGED <<instance, pc, td, log, unit, vp>>

\* what the derived class's FeatureSupport may answer
FeatureSupportResults == [status : ExternalStatus, caps : MCPY_ENGINE_CAPS]

\* the CapabilityCheck stage, with the checks it evaluated
CapStage(status, evaluated) ==
    [stage |-> "CapabilityCheck", status |-> status, evaluated |-> evaluated]

\* MCPY_CHK_STATUS_RETURN(CapabilityCheck(mcpySrc, mcpyDst, mcpyEngineCaps))
CapCheck(c) ==
    /\ sc[c].pc = "sc_caps"
    /\ \E fs \in FeatureSupportResults, veboxFormatOk \in BOOLEAN, renderFormatOk \in BOOLEAN :
          LET r == CapabilityCheck(sc[c].mcpySrc, sc[c].mcpyDst, m_allowCPBltCopy,
                                   fs, veboxFormatOk, renderFormatOk)
              frame == [sc[c] EXCEPT !.mcpyEngineCaps = r.caps]
          IN  IF r.status # MOS_STATUS_SUCCESS
              THEN /\ sc' = [sc EXCEPT ![c] = [frame EXCEPT !.pc = "sc_returned",
                                                            !.ret = r.status]]
                   /\ stages' = [stages EXCEPT ![c] =
                                    Append(@, CapStage(r.status, r.evaluated))]
              ELSE /\ sc' = [sc EXCEPT ![c] = [frame EXCEPT !.pc = "sc_select"]]
                   /\ stages' = [stages EXCEPT ![c] =
                                    Append(@, CapStage(r.status, r.evaluated))]
    /\ UNCHANGED <<instance, pc, td, log, unit, vp>>

\* CopyEnigneSelect(preferMethod, mcpyEngine, mcpyEngineCaps): SurfaceCopy does
\* not look at the status it returns
EngineSelect(c) ==
    /\ sc[c].pc = "sc_select"
    /\ LET r == CopyEnigneSelect(sc[c].preferMethod, sc[c].mcpyEngine,
                                 sc[c].mcpyEngineCaps, debugBuild, m_MCPYForceMode)
       IN  /\ sc' = [sc EXCEPT ![c].mcpyEngine = r.engine, ![c].pc = "sc_dispatch"]
           /\ stages' = [stages EXCEPT ![c] = Append(@, Stage("CopyEnigneSelect", r.status))]
    /\ UNCHANGED <<instance, pc, td, log, unit, vp>>

\* SurfaceCopy calls TaskDispatch(mcpySrc, mcpyDst, mcpyEngine)
Dispatch(c) ==
    /\ sc[c].pc = "sc_dispatch"
    /\ TaskDispatchEnter(c, sc[c].mcpySrc, sc[c].mcpyEngine)
    /\ sc' = [sc EXCEPT ![c].pc = "sc_in_dispatch"]
    /\ UNCHANGED <<instance, stages, unit, vp>>

\* MCPY_CHK_STATUS_RETURN(TaskDispatch(...)); return eStatus
DispatchReturn(c) ==
    /\ sc[c].pc = "sc_in_dispatch"
    /\ pc[c] = "returned"
    /\ ScReturn(c, "TaskDispatch", td[c].ret)
    /\ UNCHANGED <<instance, pc, td, log, unit, vp>>

SurfaceCopyStep(c) ==
    \/ SurfaceCopyCall(c)
    \/ GetSrcResourceInfo(c)
    \/ GetSrcCompressionMode(c)
    \/ GetDstResourceInfo(c)
    \/ GetDstCompressionMode(c)
    \/ PreCheck(c)
    \/ CapCheck(c)
    \/ EngineSelect(c)
    \/ Dispatch(c)
    \/ DispatchReturn(c)

\* --------------------------------------------------------------- SpecCopy
\* the thread whose SurfaceCopy call SpecCopy follows
CopyCallers == {c \in Callers : \A d \in Callers : c <= d}

InitCopy ==
    /\ \E debug \in BOOLEAN, forceMode \in ForceModes, allow \in BOOLEAN :
           Initialized(debug, forceMode, allow)
    /\ Quiet

NextCopy == \E c \in CopyCallers : SurfaceCopyStep(c) \/ TaskDispatchStep(c)

SpecCopy == InitCopy /\ [][NextCopy]_vars


\* --------------------------------------------------------------- SpecPair
\* two threads on one instance of a debug build: the SurfaceCopy thread of
\* SpecCopy and one peer that calls TaskDispatch while it runs
PeerCallers ==
    {c \in Callers \ CopyCallers : \A d \in Callers \ CopyCallers : c <= d}

InitPair ==
    /\ Initialized(TRUE, MCPY_METHOD_DEFAULT, FALSE)
    /\ Quiet

NextPair ==
    \/ \E c \in CopyCallers : SurfaceCopyStep(c) \/ TaskDispatchStep(c)
    \/ \E c \in PeerCallers : CallTaskDispatch(c) \/ TaskDispatchStep(c)

SpecPair == InitPair /\ [][NextPair]_vars


\* --------------------------------------------------------------- SpecLife
\* the instance after its constructor: no mutex, no dumper
Constructed(debug) ==
    /\ debugBuild = debug
    /\ alive = TRUE
    /\ m_inUseGPUMutex = [created |-> FALSE, owner |-> NoOwner, id |-> NoMutex]
    /\ m_surfaceDumper = FALSE
    /\ m_frameNum = 0
    /\ m_MCPYForceMode = MCPY_METHOD_DEFAULT
    /\ m_allowCPBltCopy = FALSE

\* mutant: Initialize creates a mutex whether or not there is one
Initialize_Recreates ==
    /\ alive
    /\ \E mutexOk \in BOOLEAN, osInterfaceSet \in BOOLEAN, dumperOk \in BOOLEAN,
          userSetting \in ForceModes :
        LET found == m_inUseGPUMutex.created
            mutex == IF mutexOk
                     THEN [created |-> TRUE, owner |-> NoOwner,
                           id |-> m_inUseGPUMutex.id + 1]
                     ELSE m_inUseGPUMutex
            pastNullChecks == mutex.created /\ osInterfaceSet
            dumper == IF pastNullChecks /\ debugBuild /\ ~m_surfaceDumper
                      THEN dumperOk ELSE m_surfaceDumper
        IN  /\ m_inUseGPUMutex' = mutex
            /\ m_surfaceDumper' = dumper
            /\ m_MCPYForceMode' = IF pastNullChecks /\ debugBuild /\ dumper
                                  THEN userSetting ELSE m_MCPYForceMode
            /\ unit' = [fn |-> "Initialize", found |-> found,
                        out |-> IF pastNullChecks /\ (debugBuild => dumper)
                                THEN MOS_STATUS_SUCCESS ELSE MOS_STATUS_NULL_POINTER]
    /\ UNCHANGED <<debugBuild, alive, m_frameNum, m_allowCPBltCopy, pc, td, log, sc, stages, vp>>

\* Initialize(osInterface).  mutexOk: MosCreateMutex returned a mutex;
\* osInterfaceSet: the derived class has set m_osInterface; dumperOk: MOS_New
\* returned a dumper; userSetting: the force mode of the user setting.  Each
\* null check returns MOS_STATUS_NULL_POINTER and keeps what was done before it.
Initialize ==
    /\ alive
    /\ \E mutexOk \in BOOLEAN, osInterfaceSet \in BOOLEAN, dumperOk \in BOOLEAN,
          userSetting \in ForceModes :
        LET found == m_inUseGPUMutex.created
            mutex == IF found THEN m_inUseGPUMutex
                     ELSE IF mutexOk
                     THEN [created |-> TRUE, owner |-> NoOwner,
                           id |-> m_inUseGPUMutex.id + 1]
                     ELSE m_inUseGPUMutex
            pastNullChecks == mutex.created /\ osInterfaceSet
            dumper == IF pastNullChecks /\ debugBuild /\ ~m_surfaceDumper
                      THEN dumperOk ELSE m_surfaceDumper
        IN  /\ m_inUseGPUMutex' = mutex
            /\ m_surfaceDumper' = dumper
            /\ m_MCPYForceMode' = IF pastNullChecks /\ debugBuild /\ dumper
                                  THEN userSetting ELSE m_MCPYForceMode
            /\ unit' = [fn |-> "Initialize", found |-> found,
                        out |-> IF pastNullChecks /\ (debugBuild => dumper)
                                THEN MOS_STATUS_SUCCESS ELSE MOS_STATUS_NULL_POINTER]
    /\ UNCHANGED <<debugBuild, alive, m_frameNum, m_allowCPBltCopy, pc, td, log, sc, stages, vp>>

\* a call is between its entry and its return
InCall(c) == pc[c] \notin {"idle", "returned", "aux_returned"}

\* ~MediaCopyBaseState, when no call is running on the instance: the mutex is
\* destroyed if there is one, the dumper deleted if there is one
Destroy ==
    /\ alive
    /\ \A c \in Callers : ~InCall(c)
    /\ alive' = FALSE
    /\ m_inUseGPUMutex' = [m_inUseGPUMutex EXCEPT !.created = FALSE]
    /\ m_surfaceDumper' = FALSE
    /\ UNCHANGED <<debugBuild, m_frameNum, m_MCPYForceMode, m_allowCPBltCopy,
                   pc, td, log, sc, stages, unit, vp>>

\* the threads that dispatch through the instance during its life
LifeCallers == CopyCallers \cup PeerCallers

\* a thread dispatches on the living instance once Initialize has left a mutex
UseTaskDispatch(c) ==
    /\ alive
    /\ m_inUseGPUMutex.created
    /\ CallTaskDispatch(c)

InitLife ==
    /\ \E debug \in BOOLEAN : Constructed(debug)
    /\ Quiet

NextLife ==
    \/ Initialize
    \/ Destroy
    \/ \E c \in LifeCallers : UseTaskDispatch(c) \/ TaskDispatchStep(c)

SpecLife == InitLife /\ [][NextLife]_vars


\* ------------------------------------------------------- SpecLive, SpecHang
\* two threads call TaskDispatch on the initialized instance
NextLive == \E c \in LifeCallers : CallTaskDispatch(c) \/ TaskDispatchStep(c)

\* the steps of TaskDispatch that are the thread's own code: a running thread
\* takes them
OwnSteps(c) ==
    \/ DecompCall(c) \/ DecompFailedReturn(c) \/ ExecutorCall(c)
    \/ UnlockMutex(c) \/ PostDump(c) \/ FrameWrite(c)

\* the returns of the external calls: pfnDecompResource and the executors
ExternalReturns(c) == DecompReturn(c) \/ ExecutorReturn(c)

\* every thread runs, every external call returns, and the mutex grants a
\* waiting thread the lock when it is free again and again
FairLive ==
    \A c \in LifeCallers :
        /\ WF_vars(OwnSteps(c))
        /\ WF_vars(ExternalReturns(c))
        /\ SF_vars(LockMutex(c))

SpecLive == Init /\ [][NextLive]_vars /\ FairLive

\* the same, but an external call need not return
FairHang ==
    \A c \in LifeCallers :
        /\ WF_vars(OwnSteps(c))
        /\ SF_vars(LockMutex(c))

SpecHang == Init /\ [][NextLive]_vars /\ FairHang


\* ------------------------------------------------------------- SpecKernels
\* VpPlatformInterface: the kernel binary entries added at start-up and the
\* delayed loading of the entries of one kernel type
MaxEntries == 3

KernelNone == "KernelNone"
DelayedTypes == {"KernelFDFB", "KernelSEG"}
DelayLoadedKernelType == {KernelNone} \cup DelayedTypes

\* the postfix of the n-th entry added
Postfix(n) == <<"postfix", n>>

VP_KERNEL_BINARY_ENTRY(postfix, kernelType) ==
    [postfix |-> postfix, kernelType |-> kernelType]

\* what `it' is after m_vpDelayLoadedBinaryList.erase(it), which invalidates
\* it: "next", it designates the entry that followed the erased one (an
\* unchecked contiguous container); "trap", the next use of it stops the
\* program (checked iterators)
ItAfterErase == {"next", "trap"}

\* the sequence without its i-th element
Erase(list, i) == SubSeq(list, 1, i - 1) \o SubSeq(list, i + 1, Len(list))

\* the entries added so far, loaded ones included
NumAdded ==
    Len(vp.m_vpIsaKernelBinaryList) + Len(vp.m_vpDelayLoadedBinaryList) + Len(vp.kernels)

\* AddVpIsaKernelEntryToList(kernelBin, kernelBinSize, postfix, delayKernelType);
\* map::insert leaves the flag of a type that is already in the set
AddVpIsaKernelEntryToList ==
    /\ ~vp.aborted
    /\ NumAdded < MaxEntries
    /\ \E delayKernelType \in DelayLoadedKernelType :
        LET tmpEntry == VP_KERNEL_BINARY_ENTRY(Postfix(NumAdded + 1), delayKernelType)
        IN  vp' = IF delayKernelType = KernelNone
                  THEN [vp EXCEPT !.m_vpIsaKernelBinaryList = Append(@, tmpEntry),
                                  !.call = [fn |-> "AddVpIsaKernelEntryToList"]]
                  ELSE [vp EXCEPT !.m_vpDelayLoadedBinaryList = Append(@, tmpEntry),
                                  !.m_vpDelayLoadedFeatureSet =
                                      IF delayKernelType \in DOMAIN @ THEN @
                                      ELSE @ @@ (delayKernelType :> FALSE),
                                  !.call = [fn |-> "AddVpIsaKernelEntryToList"]]
    /\ UNCHANGED <<instance, pc, td, log, sc, stages, unit>>

\* the for loop of InitializeDelayedKernels with `it' at position i: loadOk is
\* the set of postfixes whose InitVpCmKernels succeeds, kernels the kernels
\* loaded so far
RECURSIVE DelayedLoop(_, _, _, _, _, _)
DelayedLoop(list, i, type, loadOk, after, kernels) ==
    IF i > Len(list)
    THEN [list |-> list, kernels |-> kernels, status |-> MOS_STATUS_SUCCESS,
          aborted |-> FALSE]
    ELSE IF list[i].kernelType = type
    THEN IF list[i].postfix \notin loadOk
         THEN [list |-> list, kernels |-> kernels, status |-> MOS_STATUS_UNKNOWN,
               aborted |-> FALSE]
         ELSE IF after = "trap"
         THEN [list |-> Erase(list, i), kernels |-> Append(kernels, list[i].postfix),
               status |-> NoStatus, aborted |-> TRUE]
         ELSE DelayedLoop(Erase(list, i), i, type, loadOk, after,
                          Append(kernels, list[i].postfix))
    ELSE DelayedLoop(list, i + 1, type, loadOk, after, kernels)

\* InitializeDelayedKernels(type)
InitializeDelayedKernels ==
    /\ ~vp.aborted
    /\ \E type \in DelayedTypes, after \in ItAfterErase,
          loadOk \in SUBSET {Postfix(n) : n \in 1..MaxEntries} :
        LET feature == vp.m_vpDelayLoadedFeatureSet
            call == [fn |-> "InitializeDelayedKernels", type |-> type, loadOk |-> loadOk,
                     list |-> vp.m_vpDelayLoadedBinaryList, feature |-> feature,
                     kernels |-> vp.kernels]
        IN  IF type \in DOMAIN feature /\ feature[type] = FALSE
               /\ vp.m_vpDelayLoadedBinaryList # <<>>
            THEN LET r == DelayedLoop(vp.m_vpDelayLoadedBinaryList, 1, type, loadOk,
                                      after, vp.kernels)
                 IN  vp' = [vp EXCEPT
                              !.m_vpDelayLoadedBinaryList = r.list,
                              !.kernels = r.kernels,
                              !.aborted = r.aborted,
                              !.m_vpDelayLoadedFeatureSet =
                                  IF r.status = MOS_STATUS_SUCCESS
                                  THEN [feature EXCEPT ![type] = TRUE] ELSE feature,
                              !.call = call @@ [status |-> r.status]]
            ELSE vp' = [vp EXCEPT !.call = call @@ [status |-> MOS_STATUS_SUCCESS]]
    /\ UNCHANGED <<instance, pc, td, log, sc, stages, unit>>

InitKernels ==
    /\ Initialized(FALSE, MCPY_METHOD_DEFAULT, FALSE)
    /\ Quiet

NextKernels == AddVpIsaKernelEntryToList \/ InitializeDelayedKernels

SpecKernels == InitKernels /\ [][NextKernels]_vars


\* --------------------------------------------------------------- SpecUnit
\* the destinations of the unit applications: CapabilityCheck reads CpMode only
UnitDestinations ==
    {d \in MCPY_STATE_PARAMS : d.TileMode = MOS_TILE_LINEAR
                               /\ d.CompressionMode = MOS_MMC_DISABLED /\ ~d.bAuxSuface}

\* CapabilityCheck(mcpySrc, mcpyDst, caps) on an instance whose allow flag is
\* allow, with the derived class answering fs, veboxFormatOk, renderFormatOk
ApplyCapabilityCheck ==
    /\ unit.fn = "none"
    /\ \E mcpySrc \in MCPY_STATE_PARAMS, mcpyDst \in UnitDestinations, allow \in BOOLEAN,
       fs \in FeatureSupportResults, veboxFormatOk \in BOOLEAN, renderFormatOk \in BOOLEAN :
        unit' = [fn |-> "CapabilityCheck", mcpySrc |-> mcpySrc, mcpyDst |-> mcpyDst,
                    allow |-> allow, fs |-> fs, veboxFormatOk |-> veboxFormatOk,
                    renderFormatOk |-> renderFormatOk,
                    out |-> CapabilityCheck(mcpySrc, mcpyDst, allow, fs,
                                            veboxFormatOk, renderFormatOk)]
    /\ UNCHANGED <<instance, pc, td, log, sc, stages, vp>>

\* CopyEnigneSelect(preferMethod, mcpyEngine, caps) on an instance of a debug or
\* release build whose force mode is forceMode
ApplyCopyEnigneSelect ==
    /\ unit.fn = "none"
    /\ \E preferMethod \in Methods, mcpyEngine \in Engines, caps \in MCPY_ENGINE_CAPS,
       debug \in BOOLEAN, forceMode \in ForceModes :
        unit' = [fn |-> "CopyEnigneSelect", preferMethod |-> preferMethod,
                    mcpyEngine |-> mcpyEngine, caps |-> caps, debug |-> debug,
                    forceMode |-> forceMode,
                    out |-> CopyEnigneSelect(preferMethod, mcpyEngine, caps, debug, forceMode)]
    /\ UNCHANGED <<instance, pc, td, log, sc, stages, vp>>

InitUnit ==
    /\ Initialized(FALSE, MCPY_METHOD_DEFAULT, FALSE)
    /\ Quiet

NextUnit == ApplyCapabilityCheck \/ ApplyCopyEnigneSelect

SpecUnit == InitUnit /\ [][NextUnit]_vars


\* ================================================================= claims
IsCall(e, name) == e.ev = "call" /\ e.arg = name
NumCalls(l, name) == Cardinality({i \in DOMAIN l : IsCall(l[i], name)})
NumEvents(l, ev) == Cardinality({i \in DOMAIN l : l[i].ev = ev})
ExecutorNames == {"MediaVeboxCopy", "MediaBltCopy", "MediaRenderCopy"}
NumExecutorCalls(l) ==
    Cardinality({i \in DOMAIN l : l[i].ev = "call" /\ l[i].arg \in ExecutorNames})

\* between MosLockMutex and MosUnlockMutex: the decompression-or-executor section
InSection(c) ==
    pc[c] \in {"td_switch", "td_decomp", "td_decomp_failed", "td_executor",
               "td_in_executor", "td_unlock"}

\* C1: at most one caller is inside the decompression-or-executor section at
\* any time, whatever engines the callers dispatch, and the caller inside it is
\* the one holding the dispatch lock.
C1_MutualExclusion ==
    /\ Cardinality({c \in Callers : InSection(c)}) <= 1
    /\ \A c \in Callers : InSection(c) => m_inUseGPUMutex.owner = c

C1_Witness ==
    \E c, d \in Callers :
        /\ pc[c] = "td_in_executor" /\ pc[d] = "td_predump"
        /\ td[c].mcpyEngine # td[d].mcpyEngine

\* C2: a Copy call never releases the dispatch lock more often than it acquired
\* it, acquires it at most once, has released it exactly once when TaskDispatch
\* returns (on the decompression-failure path too), and does not hold it when
\* the call has returned.
C2_LockReleasedOnce ==
    \A c \in Callers :
        /\ NumEvents(log[c], "lock") <= 1
        /\ NumEvents(log[c], "unlock") <= NumEvents(log[c], "lock")
        /\ pc[c] = "returned" =>
              NumEvents(log[c], "unlock") = 1 /\ m_inUseGPUMutex.owner # c
        /\ sc[c].pc = "sc_returned" =>
              /\ NumEvents(log[c], "unlock") = NumEvents(log[c], "lock")
              /\ m_inUseGPUMutex.owner # c

C2_Witness ==
    \E c \in Callers :
        /\ sc[c].pc = "sc_returned"
        /\ NumCalls(log[c], "pfnDecompResource") = 1
        /\ NumExecutorCalls(log[c]) = 0
        /\ NumEvents(log[c], "unlock") = 1

\* the priority table of the engine selector
PriorityOrder(preferMethod) ==
    CASE preferMethod \in {MCPY_METHOD_DEFAULT, MCPY_METHOD_PERFORMANCE} ->
            <<MCPY_ENGINE_RENDER, MCPY_ENGINE_BLT, MCPY_ENGINE_VEBOX>>
      [] preferMethod = MCPY_METHOD_BALANCE ->
            <<MCPY_ENGINE_VEBOX, MCPY_ENGINE_BLT, MCPY_ENGINE_RENDER>>
      [] preferMethod = MCPY_METHOD_POWERSAVING ->
            <<MCPY_ENGINE_BLT, MCPY_ENGINE_VEBOX, MCPY_ENGINE_RENDER>>

Eligible(caps, engine) ==
    CASE engine = MCPY_ENGINE_VEBOX -> caps.engineVebox
      [] engine = MCPY_ENGINE_BLT -> caps.engineBlt
      [] engine = MCPY_ENGINE_RENDER -> caps.engineRender

FirstEligible(order, caps) ==
    order[CHOOSE i \in DOMAIN order :
              Eligible(caps, order[i]) /\ \A j \in 1..(i - 1) : ~Eligible(caps, order[j])]

\* C3: with no force override active (a release build, or force mode Default),
\* for each of the four preferences and every capability set with an eligible
\* engine, CopyEnigneSelect succeeds with the first eligible engine of the
\* preference's priority order; that engine is eligible.
C3_SelectFollowsPriority ==
    (/\ unit.fn = "CopyEnigneSelect"
     /\ (~unit.debug \/ unit.forceMode = MCPY_METHOD_DEFAULT)
     /\ unit.preferMethod \in Preferences
     /\ \E e \in Engines : Eligible(unit.caps, e))
    => /\ unit.out.engine = FirstEligible(PriorityOrder(unit.preferMethod), unit.caps)
       /\ Eligible(unit.caps, unit.out.engine)
       /\ unit.out.status = MOS_STATUS_SUCCESS

C3_Witness ==
    /\ unit.fn = "CopyEnigneSelect"
    /\ ~unit.debug
    /\ unit.preferMethod = MCPY_METHOD_BALANCE
    /\ unit.caps = [engineVebox |-> FALSE, engineBlt |-> TRUE, engineRender |-> TRUE]
    /\ unit.out.engine = MCPY_ENGINE_BLT

\* the stages of SurfaceCopy, in order
StageOrder ==
    <<"src.pfnGetResourceInfo", "src.pfnGetMemoryCompressionMode",
      "dst.pfnGetResourceInfo", "dst.pfnGetMemoryCompressionMode",
      "PreCheckCpCopy", "CapabilityCheck", "CopyEnigneSelect", "TaskDispatch">>

\* C4: the stages of Copy run in their fixed order, the first stage returning a
\* non-success status ends the call with exactly that status, and after a
\* failed pre-dispatch stage nothing is dispatched (no lock, no decompression,
\* no executor call).
C4_FailFast ==
    \A c \in Callers :
        LET s == stages[c] IN
        /\ \A i \in DOMAIN s : i <= Len(StageOrder) /\ s[i].stage = StageOrder[i]
        /\ \A i \in DOMAIN s :
              s[i].status # MOS_STATUS_SUCCESS =>
                  /\ i = Len(s)
                  /\ sc[c].pc = "sc_returned"
                  /\ sc[c].ret = s[i].status
        /\ (\E i \in DOMAIN s : s[i].status # MOS_STATUS_SUCCESS /\ s[i].stage # "TaskDispatch")
              => pc[c] = "idle" /\ log[c] = <<>>

\* C5: with the force mode holding the bypass value, no engine executor is
\* invoked for a Copy call, and a call that got as far as engine selection
\* returns invalid-parameter.
C5_BypassAbortsCopy ==
    \A c \in Callers :
        (debugBuild /\ m_MCPYForceMode = MCPY_FORCE_BYPASS) =>
            /\ NumExecutorCalls(log[c]) = 0
            /\ (sc[c].pc = "sc_returned" /\ Len(stages[c]) >= 7)
                  => sc[c].ret = MOS_STATUS_INVALID_PARAMETER

\* the case of C6: protected source, clear destination, downgrade not allowed
C6_Case ==
    /\ unit.fn = "CapabilityCheck"
    /\ unit.mcpySrc.CpMode = MCPY_CPMODE_CP
    /\ unit.mcpyDst.CpMode = MCPY_CPMODE_CLEAR
    /\ ~unit.allow

\* C6 as stated: in that case CapabilityCheck returns invalid-parameter whatever
\* the platform predicate, the format checks and the source layout are.
C6_AlwaysInvalidParameter ==
    C6_Case => unit.out.status = MOS_STATUS_INVALID_PARAMETER

\* C6 as amended: in that case CapabilityCheck always fails; it returns
\* invalid-parameter whenever the platform predicate succeeded, and the
\* predicate's own status when the predicate failed.
C6_AlwaysFails ==
    C6_Case =>
        /\ unit.out.status # MOS_STATUS_SUCCESS
        /\ unit.fs.status = MOS_STATUS_SUCCESS
              => unit.out.status = MOS_STATUS_INVALID_PARAMETER
        /\ unit.fs.status # MOS_STATUS_SUCCESS => unit.out.status = unit.fs.status

C6_Witness ==
    /\ C6_Case
    /\ unit.fs = [status |-> MOS_STATUS_SUCCESS, caps |-> InitEngineCaps]
    /\ unit.veboxFormatOk /\ unit.renderFormatOk
    /\ unit.mcpySrc.TileMode = MOS_TILE_Y /\ unit.mcpySrc.CompressionMode = MOS_MMC_RC
    /\ unit.out.status = MOS_STATUS_INVALID_PARAMETER

AllFalse(caps) == ~caps.engineVebox /\ ~caps.engineBlt /\ ~caps.engineRender

\* C7: a CapabilityCheck that returned success left an eligible engine; one
\* that applied its rules and left none returned invalid-parameter; engine
\* selection and dispatch are never reached with an all-false capability set.
C7_SomeEngineAfterEvaluate ==
    \A c \in Callers :
        LET s == stages[c] IN
        /\ sc[c].pc \in {"sc_select", "sc_dispatch", "sc_in_dispatch"}
              => ~AllFalse(sc[c].mcpyEngineCaps)
        /\ pc[c] # "idle" => ~AllFalse(sc[c].mcpyEngineCaps)
        /\ \A i \in DOMAIN s :
              s[i].stage = "CopyEnigneSelect" => ~AllFalse(sc[c].mcpyEngineCaps)
        /\ (Len(s) >= 1 /\ s[Len(s)].stage = "CapabilityCheck") =>
              /\ s[Len(s)].status = MOS_STATUS_SUCCESS => ~AllFalse(sc[c].mcpyEngineCaps)
              /\ (AllFalse(sc[c].mcpyEngineCaps) /\ Len(s[Len(s)].evaluated) = 5)
                    => /\ s[Len(s)].status = MOS_STATUS_INVALID_PARAMETER
                       /\ sc[c].pc = "sc_returned"
                       /\ sc[c].ret = MOS_STATUS_INVALID_PARAMETER

C7_Witness ==
    \E c \in Callers :
        /\ sc[c].pc = "sc_returned"
        /\ Len(stages[c]) = 6
        /\ Len(stages[c][6].evaluated) = 5
        /\ AllFalse(sc[c].mcpyEngineCaps)
        /\ sc[c].ret = MOS_STATUS_INVALID_PARAMETER

\* the case of C8: a Blt dispatch of a tiled, compressed source
C8_Case(c) ==
    /\ pc[c] # "idle"
    /\ td[c].mcpyEngine = MCPY_ENGINE_BLT
    /\ td[c].mcpySrc.TileMode # MOS_TILE_LINEAR
    /\ td[c].mcpySrc.CompressionMode # MOS_MMC_DISABLED

\* C8: in that case the source is decompressed exactly once, while the caller
\* holds the lock, before the Blt executor is called, and the Blt executor is
\* called only after the decompression returned success.
C8_DecompressOnceBeforeBlt ==
    \A c \in Callers :
        C8_Case(c) =>
            LET l == log[c] IN
            /\ NumCalls(l, "pfnDecompResource") <= 1
            /\ pc[c] \in {"td_executor", "td_in_executor", "td_unlock", "td_postdump",
                          "td_frame_write", "returned"}
                  => NumCalls(l, "pfnDecompResource") = 1
            /\ pc[c] = "td_decomp" => m_inUseGPUMutex.owner = c
            /\ \A j \in DOMAIN l :
                  IsCall(l[j], "MediaBltCopy") =>
                      \E i \in 1..(j - 2) :
                          /\ IsCall(l[i], "pfnDecompResource")
                          /\ l[i + 1] = Event("ret", MOS_STATUS_SUCCESS)
                          /\ \E k \in 1..(i - 1) : l[k].ev = "lock"
                          /\ \A k \in 1..j : l[k].ev # "unlock"

C8_Witness ==
    \E c \in Callers :
        /\ C8_Case(c)
        /\ td[c].mcpySrc.CompressionMode = MOS_MMC_RC
        /\ pc[c] = "returned"
        /\ NumCalls(log[c], "pfnDecompResource") = 1
        /\ NumCalls(log[c], "MediaBltCopy") = 1

\* the case of C9: a Blt dispatch of a linear source
C9_Case(c) ==
    /\ pc[c] # "idle"
    /\ td[c].mcpyEngine = MCPY_ENGINE_BLT
    /\ td[c].mcpySrc.TileMode = MOS_TILE_LINEAR

\* C9: in that case decompression is never invoked, whatever the compression
\* mode, and the first call made under the lock is the Blt executor.
C9_LinearNeverDecompressed ==
    \A c \in Callers :
        C9_Case(c) =>
            LET l == log[c] IN
            /\ NumCalls(l, "pfnDecompResource") = 0
            /\ pc[c] \notin {"td_decomp", "td_decomp_failed", "td_executor"}
            /\ Len(l) >= 2 => l[1].ev = "lock" /\ IsCall(l[2], "MediaBltCopy")

C9_Witness ==
    \E c \in Callers :
        /\ C9_Case(c)
        /\ td[c].mcpySrc.CompressionMode = MOS_MMC_MC
        /\ pc[c] = "returned"
        /\ NumCalls(log[c], "MediaBltCopy") = 1

\* the conclusion of C10 for an auxiliary source
C10_AuxOutcome ==
    /\ ~unit.out.caps.engineVebox
    /\ ~unit.out.caps.engineRender
    /\ unit.out.caps.engineBlt = unit.fs.caps.engineBlt
    /\ IF unit.fs.caps.engineBlt
       THEN unit.out.status = MOS_STATUS_SUCCESS
       ELSE unit.out.status = MOS_STATUS_INVALID_PARAMETER

\* C10 as stated: for an auxiliary source CapabilityCheck leaves Vebox and
\* Render ineligible whatever the predicate and the format checks returned; it
\* fails with invalid-parameter if Blt is ineligible too and succeeds with Blt
\* alone otherwise.
C10_AuxForcesBltOnly ==
    (unit.fn = "CapabilityCheck" /\ unit.mcpySrc.bAuxSuface) => C10_AuxOutcome

\* C10 as amended: the same, for the evaluations that reach the eligibility
\* rules: the platform predicate succeeded and the pair is not a protected
\* source with a clear destination while the downgrade is not allowed.
C10_AuxForcesBltOnlyWhenEvaluated ==
    (/\ unit.fn = "CapabilityCheck"
     /\ unit.mcpySrc.bAuxSuface
     /\ unit.fs.status = MOS_STATUS_SUCCESS
     /\ ~(/\ unit.mcpySrc.CpMode = MCPY_CPMODE_CP
          /\ unit.mcpyDst.CpMode = MCPY_CPMODE_CLEAR
          /\ ~unit.allow))
    => C10_AuxOutcome

C10_Witness ==
    /\ unit.fn = "CapabilityCheck"
    /\ unit.mcpySrc.bAuxSuface
    /\ unit.fs = [status |-> MOS_STATUS_SUCCESS, caps |-> InitEngineCaps]
    /\ unit.veboxFormatOk /\ unit.renderFormatOk
    /\ unit.out.status = MOS_STATUS_SUCCESS
    /\ unit.out.caps = [engineVebox |-> FALSE, engineBlt |-> TRUE, engineRender |-> FALSE]

\* the engine a forced value names
ForcedEngine(forceMode) ==
    CASE forceMode = MCPY_METHOD_PERFORMANCE -> MCPY_ENGINE_RENDER
      [] forceMode = MCPY_METHOD_POWERSAVING -> MCPY_ENGINE_BLT
      [] forceMode = MCPY_METHOD_BALANCE -> MCPY_ENGINE_VEBOX

\* C11: with the force override active (a debug build whose force mode is
\* Performance, PowerSaving or Balance), CopyEnigneSelect succeeds with the
\* engine the forced value names (Performance: Render, PowerSaving: Blt,
\* Balance: Vebox), whatever the preference, the engine passed in and the
\* capability set are, also when the capability set marks that engine
\* ineligible.
C11_ForcedEngineOnly ==
    (/\ unit.fn = "CopyEnigneSelect"
     /\ unit.debug
     /\ unit.forceMode \in {MCPY_METHOD_PERFORMANCE, MCPY_METHOD_POWERSAVING,
                            MCPY_METHOD_BALANCE})
    => /\ unit.out.status = MOS_STATUS_SUCCESS
       /\ unit.out.engine = ForcedEngine(unit.forceMode)

\* forced PowerSaving with Blt ineligible and the other two engines eligible
C11_Witness ==
    /\ unit.fn = "CopyEnigneSelect"
    /\ unit.debug
    /\ unit.forceMode = MCPY_METHOD_POWERSAVING
    /\ unit.preferMethod = MCPY_METHOD_PERFORMANCE
    /\ unit.caps = [engineVebox |-> TRUE, engineBlt |-> FALSE, engineRender |-> TRUE]
    /\ unit.out.engine = MCPY_ENGINE_BLT

\* the positions of the executor calls in a call's log
ExecutorCallsAt(l) == {i \in DOMAIN l : l[i].ev = "call" /\ l[i].arg \in ExecutorNames}

\* the executor has returned: the event after its call is its status
ExecutorReturned(l) == \E i \in ExecutorCallsAt(l) : i + 1 \in DOMAIN l

ExecutorStatusOf(l) == l[(CHOOSE i \in ExecutorCallsAt(l) : i + 1 \in DOMAIN l) + 1].arg

\* C12: once the selected engine's executor has been invoked and has returned
\* a status, success or failure, TaskDispatch returns exactly that status and
\* SurfaceCopy returns it too, in release builds and in debug builds where the
\* post-copy dump and the telemetry report run in between.
C12_ExecutorStatusVerbatim ==
    \A c \in Callers :
        ExecutorReturned(log[c]) =>
            /\ pc[c] = "returned" => td[c].ret = ExecutorStatusOf(log[c])
            /\ sc[c].pc = "sc_returned" => sc[c].ret = ExecutorStatusOf(log[c])

\* a debug build whose dump ran (the frame counter moved) after a failed executor
C12_Witness ==
    \E c \in Callers :
        /\ sc[c].pc = "sc_returned"
        /\ debugBuild /\ m_frameNum = 1
        /\ ExecutorReturned(log[c])
        /\ ExecutorStatusOf(log[c]) = MOS_STATUS_UNKNOWN
        /\ sc[c].ret = MOS_STATUS_UNKNOWN

\* the call has acquired the dispatch lock / has released it again
Acquired(l) == NumEvents(l, "lock") = 1
Released(l) == NumEvents(l, "unlock") = 1

\* C13: for concurrent calls the order of lock acquisition is the order of the
\* hardware submissions.  Every submission step of a call (decompression,
\* executor) comes after the call's own acquisition; at the step where a call
\* acquires the lock, every call that acquired it earlier has released it; and
\* a call that has released the lock submits nothing more.  So all submission
\* steps of the earlier acquirer are complete before any of the later one.
C13_LockOrderIsSubmissionOrder ==
    [][\A c, d \in Callers :
          /\ log'[d] # <<>> => log'[d][1].ev = "lock"
          /\ (c # d /\ Acquired(log[c]) /\ ~Acquired(log[d]) /\ Acquired(log'[d]))
                => Released(log[c])
          /\ Released(log[c]) => log'[c] = log[c]]_vars

\* the earlier acquirer has finished its executor and released the lock, the
\* later one is inside its executor
C13_Witness ==
    \E c, d \in Callers :
        /\ c # d
        /\ Released(log[c]) /\ NumExecutorCalls(log[c]) = 1
        /\ pc[d] = "td_in_executor"

\* C14: a call of the base class's AuxCopy returns the not-supported status of
\* the code (MOS_STATUS_INVALID_HANDLE, never success) in one step, whether or
\* not another caller holds the dispatch lock; the step changes no field of
\* the instance (the lock, the frame counter, the dumper, the force mode, the
\* allow flag) and calls no decompression and no executor.
C14_AuxCopyNotSupported ==
    [][\A c \in Callers :
          (pc[c] = "idle" /\ pc'[c] = "aux_returned")
              => /\ td'[c].ret = MOS_STATUS_INVALID_HANDLE
                 /\ td'[c].ret # MOS_STATUS_SUCCESS
                 /\ instance' = instance
                 /\ log' = log /\ log[c] = <<>>]_vars

\* AuxCopy has returned to one caller while another is inside its executor
\* with the lock held
C14_Witness ==
    \E c, d \in Callers :
        /\ pc[c] = "aux_returned" /\ td[c].ret = MOS_STATUS_INVALID_HANDLE
        /\ pc[d] = "td_in_executor" /\ m_inUseGPUMutex.owner = d

\* the positions of the decompression calls in a call's log
DecompCallsAt(l) == {i \in DOMAIN l : IsCall(l[i], "pfnDecompResource")}

\* the pre-decompression has returned a failure
DecompFailed(l) ==
    \E i \in DecompCallsAt(l) : i + 1 \in DOMAIN l /\ l[i + 1].arg # MOS_STATUS_SUCCESS

DecompStatusOf(l) == l[(CHOOSE i \in DecompCallsAt(l) : i + 1 \in DOMAIN l) + 1].arg

\* C15: when the pre-decompression of a Blt dispatch fails, the Blt executor
\* (and any other executor) is never invoked for that call, and when
\* TaskDispatch has returned it has returned the decompression's status
\* unchanged, has released the dispatch lock once, as the last thing it did
\* under the lock, and does not hold it.
C15_DecompFailureReleasesAndReturns ==
    \A c \in Callers :
        DecompFailed(log[c]) =>
            /\ NumExecutorCalls(log[c]) = 0
            /\ pc[c] = "returned" =>
                  /\ td[c].ret = DecompStatusOf(log[c])
                  /\ td[c].ret # MOS_STATUS_SUCCESS
                  /\ Released(log[c])
                  /\ log[c][Len(log[c])].ev = "unlock"
                  /\ m_inUseGPUMutex.owner # c

\* the call whose decompression failed has returned and another caller has
\* taken the lock it released
C15_Witness ==
    \E c, d \in Callers :
        /\ pc[c] = "returned" /\ DecompFailed(log[c])
        /\ td[c].mcpyEngine = MCPY_ENGINE_BLT
        /\ m_inUseGPUMutex.owner = d /\ d # c

\* SurfaceCopy before the dispatch: descriptor construction, protection
\* pre-check, capability evaluation, engine selection
BeforeDispatch(c) ==
    sc[c].pc \in {"sc_src_info", "sc_src_mmc", "sc_dst_info", "sc_dst_mmc",
                  "sc_precheck", "sc_caps", "sc_select", "sc_dispatch"}

\* TaskDispatch after the unlock: telemetry report and post-copy dump
AfterUnlock(c) == pc[c] \in {"td_postdump", "td_frame_write"}

\* C16: a caller holds the dispatch lock exactly while it is between
\* MosLockMutex and MosUnlockMutex, around the decompression and the executor.
\* In descriptor construction, pre-check, capability evaluation and engine
\* selection, at the pre-copy dump and in the post-copy dump and telemetry it
\* does not hold the lock, and (the wait for the lock after the pre-copy dump
\* aside) its next step is enabled whoever holds the lock, so these stages of
\* one caller run while another caller is in them or holds the lock.
C16_LockOnlyAroundSubmission ==
    \A c \in Callers :
        /\ m_inUseGPUMutex.owner = c <=> InSection(c)
        /\ (BeforeDispatch(c) \/ pc[c] = "td_predump" \/ AfterUnlock(c))
              => m_inUseGPUMutex.owner # c
        /\ BeforeDispatch(c) => ENABLED SurfaceCopyStep(c)
        /\ AfterUnlock(c) => ENABLED TaskDispatchStep(c)

\* one caller is in the capability evaluation while the other holds the lock
\* inside its executor
C16_Witness ==
    \E c, d \in Callers :
        /\ sc[c].pc = "sc_caps"
        /\ pc[d] = "td_in_executor" /\ m_inUseGPUMutex.owner = d

\* the evaluation was not aborted before the eligibility rules: the platform
\* predicate succeeded and the legality rule did not reject the pair, so the
\* two format checks were evaluated
C17_RulesEvaluated ==
    /\ unit.fs.status = MOS_STATUS_SUCCESS
    /\ ~(/\ unit.mcpySrc.CpMode = MCPY_CPMODE_CP
         /\ unit.mcpyDst.CpMode = MCPY_CPMODE_CLEAR
         /\ ~unit.allow)

C18_PredicateFailureAborts ==
    (unit.fn = "CapabilityCheck" /\ unit.fs.status # MOS_STATUS_SUCCESS)
    => /\ unit.out.status = unit.fs.status
       /\ unit.out.evaluated = <<"FeatureSupport">>
       /\ unit.out.caps = unit.fs.caps

\* the predicate fails on a pair the legality rule would reject and on which
\* both format checks would revoke their engine
C18_Witness ==
    /\ unit.fn = "CapabilityCheck"
    /\ unit.fs = [status |-> MOS_STATUS_UNKNOWN, caps |-> InitEngineCaps]
    /\ unit.mcpySrc.CpMode = MCPY_CPMODE_CP /\ unit.mcpyDst.CpMode = MCPY_CPMODE_CLEAR
    /\ ~unit.allow
    /\ ~unit.veboxFormatOk /\ ~unit.renderFormatOk
    /\ unit.out.status = MOS_STATUS_UNKNOWN

\* the executor that belongs to an engine
ExecutorBelongingTo(mcpyEngine) ==
    CASE mcpyEngine = MCPY_ENGINE_VEBOX -> "MediaVeboxCopy"
      [] mcpyEngine = MCPY_ENGINE_BLT -> "MediaBltCopy"
      [] mcpyEngine = MCPY_ENGINE_RENDER -> "MediaRenderCopy"

\* C19: a SurfaceCopy call makes at most one executor call and at most one
\* decompression call; the executor called is the one of the engine the
\* selector chose and TaskDispatch received (Vebox: MediaVeboxCopy, Blt:
\* MediaBltCopy, Render: MediaRenderCopy); and after a decompression or an
\* executor has returned a failure the call makes no further decompression
\* or executor call.
C19_OneExecutorNoRetry ==
    \A c \in Callers :
        /\ NumExecutorCalls(log[c]) <= 1
        /\ NumCalls(log[c], "pfnDecompResource") <= 1
        /\ \A i \in ExecutorCallsAt(log[c]) :
              /\ log[c][i].arg = ExecutorBelongingTo(td[c].mcpyEngine)
              /\ td[c].mcpyEngine = sc[c].mcpyEngine
        /\ \A i, j \in DOMAIN log[c] :
              (i < j /\ log[c][i].ev = "ret" /\ log[c][i].arg # MOS_STATUS_SUCCESS)
                  => log[c][j].ev # "call"

\* SurfaceCopy has returned after its one Vebox executor call failed
C19_Witness ==
    \E c \in Callers :
        /\ sc[c].pc = "sc_returned"
        /\ sc[c].mcpyEngine = MCPY_ENGINE_VEBOX
        /\ log[c] = <<Event("lock", "m_inUseGPUMutex"), Event("call", "MediaVeboxCopy"),
                      Event("ret", MOS_STATUS_UNKNOWN), Event("unlock", "m_inUseGPUMutex")>>

\* C20: the dispatch lock is created once per instance.  A step creates the
\* lock only when there is none, and it is the first lock of the instance; a
\* step that starts and ends with a lock (a later Initialize among them)
\* leaves the same lock in place; the lock goes away only in the step that
\* ends the instance's life; so every call running between initialization
\* and teardown finds that one lock.
C20_LockCreatedOnce ==
    [][/\ (~m_inUseGPUMutex.created /\ m_inUseGPUMutex'.created)
            => (m_inUseGPUMutex.id = NoMutex /\ m_inUseGPUMutex'.id = 1)
       /\ (m_inUseGPUMutex.created /\ m_inUseGPUMutex'.created)
            => m_inUseGPUMutex'.id = m_inUseGPUMutex.id
       /\ (m_inUseGPUMutex.created /\ ~m_inUseGPUMutex'.created)
            => (alive /\ ~alive')
       /\ \A c \in Callers :
            pc'[c] \notin {"idle", "returned", "aux_returned"}
                => (m_inUseGPUMutex'.created /\ m_inUseGPUMutex'.id = 1)]_vars

\* a later Initialize found the lock while a caller was holding it, and the
\* caller still holds the same lock
C20_Witness ==
    \E c \in Callers :
        /\ unit.fn = "Initialize" /\ unit.found
        /\ pc[c] = "td_in_executor"
        /\ m_inUseGPUMutex = [created |-> TRUE, owner |-> c, id |-> 1]

\* C21 as stated: with a dumper present the frame counter never decreases and
\* a dispatch advances it by one exactly when the status it returns is
\* success: after the one dispatch of a SurfaceCopy call the counter is 1 if
\* TaskDispatch returned success and still 0 if it returned a failure.
C21_AdvanceOnSuccessOnly ==
    \A c \in Callers :
        (debugBuild /\ m_surfaceDumper /\ pc[c] = "returned")
            => m_frameNum = (IF td[c].ret = MOS_STATUS_SUCCESS THEN 1 ELSE 0)

\* the switch of TaskDispatch has chosen its branch
PastSwitch(c) ==
    pc[c] \in {"td_decomp", "td_decomp_failed", "td_executor", "td_in_executor",
               "td_unlock", "td_postdump", "td_frame_write", "returned"}

\* C23: a dispatch calls the decompression if and only if its engine is Blt,
\* its source is not linear and its source's compression mode is not
\* disabled: once the switch has chosen its branch the call has made one
\* decompression call in that case and none in every other (Vebox, Render,
\* Blt with compression disabled, Blt with a linear source), for every tile
\* mode and compression mode; before the switch it has made none.
C23_DecompressIffBltTiledCompressed ==
    \A c \in Callers :
        IF PastSwitch(c)
        THEN NumCalls(log[c], "pfnDecompResource") =
                (IF /\ td[c].mcpyEngine = MCPY_ENGINE_BLT
                    /\ td[c].mcpySrc.TileMode # MOS_TILE_LINEAR
                    /\ td[c].mcpySrc.CompressionMode # MOS_MMC_DISABLED
                 THEN 1 ELSE 0)
        ELSE NumCalls(log[c], "pfnDecompResource") = 0

\* a Vebox dispatch of a tiled, compressed source has called its executor
\* without a decompression
C23_Witness ==
    \E c \in Callers :
        /\ pc[c] = "td_in_executor"
        /\ td[c].mcpyEngine = MCPY_ENGINE_VEBOX
        /\ td[c].mcpySrc.TileMode = MOS_TILE_Y
        /\ td[c].mcpySrc.CompressionMode = MOS_MMC_MC
        /\ NumCalls(log[c], "pfnDecompResource") = 0

\* an engine stays eligible after the eligibility rules
C25_SomeEngineRemains ==
    \/ unit.fs.caps.engineBlt
    \/ unit.fs.caps.engineVebox /\ unit.veboxFormatOk /\ ~unit.mcpySrc.bAuxSuface
    \/ unit.fs.caps.engineRender /\ unit.renderFormatOk /\ ~unit.mcpySrc.bAuxSuface

\* C25: for every pair other than a protected source with a clear destination
\* while the allow flag is off (clear to clear, clear to protected, protected
\* to protected, and protected to clear with the flag on) the legality rule
\* rejects nothing: CapabilityCheck returns the platform predicate's status
\* when the predicate failed, and otherwise success if an engine stays
\* eligible after the eligibility rules and invalid-parameter if none does.
C25_LegalityRejectsOnlyDowngrade ==
    (/\ unit.fn = "CapabilityCheck"
     /\ ~(/\ unit.mcpySrc.CpMode = MCPY_CPMODE_CP
          /\ unit.mcpyDst.CpMode = MCPY_CPMODE_CLEAR
          /\ ~unit.allow))
    => unit.out.status =
          (IF unit.fs.status # MOS_STATUS_SUCCESS THEN unit.fs.status
           ELSE IF C25_SomeEngineRemains THEN MOS_STATUS_SUCCESS
           ELSE MOS_STATUS_INVALID_PARAMETER)

\* a protected source and a clear destination with the allow flag on: the
\* evaluation succeeds with the engines the rules left
C25_Witness ==
    /\ unit.fn = "CapabilityCheck"
    /\ unit.mcpySrc.CpMode = MCPY_CPMODE_CP /\ unit.mcpyDst.CpMode = MCPY_CPMODE_CLEAR
    /\ unit.allow
    /\ unit.fs.status = MOS_STATUS_SUCCESS
    /\ unit.out.status = MOS_STATUS_SUCCESS
    /\ unit.out.caps.engineBlt

\* the dispatches that have run to the end of TaskDispatch
RanToEnd == {c \in Callers : pc[c] = "returned" /\ Released(log[c])
                                /\ NumExecutorCalls(log[c]) = 1}

\* C26 as stated: with a dumper present and callers dispatching concurrently,
\* no increment of the frame counter is lost: when N dispatches have run to
\* the end of TaskDispatch the counter has advanced by exactly N.
C26_NoLostIncrement ==
    (debugBuild /\ m_surfaceDumper) => m_frameNum = Cardinality(RanToEnd)

\* the caller is inside pfnDecompResource or inside an executor
InExternalCall(c) == pc[c] \in {"td_decomp", "td_in_executor"}

\* C22: there is no timeout and no cancellation.  If a caller's executor or
\* decompression call never returns, that caller holds the dispatch lock for
\* ever, and every other caller that has reached the lock acquisition stays
\* there for ever and submits nothing, although it runs and the mutex is fair.
C22_HungExecutorBlocksAll ==
    \A c, d \in Callers :
        (c # d /\ <>[]InExternalCall(c))
            => /\ <>[](m_inUseGPUMutex.owner = c)
               /\ []((InExternalCall(c) /\ pc[d] = "td_predump")
                        => [](pc[d] = "td_predump" /\ log[d] = <<>>))

\* one caller is inside its executor with the lock, the other has reached the
\* lock acquisition and cannot take it
C22_Witness ==
    \E c, d \in Callers :
        /\ pc[c] = "td_in_executor" /\ m_inUseGPUMutex.owner = c
        /\ pc[d] = "td_predump" /\ log[d] = <<>>
        /\ ~ENABLED LockMutex(d)

\* C24: when every external call returns, every thread runs and the mutex is
\* fair, every call made concurrently with the other's call returns, and
\* whenever no call is running the dispatch lock is free.
C24_EveryCallReturns ==
    /\ \A c \in Callers : (pc[c] # "idle") ~> (pc[c] = "returned")
    /\ []((\A c \in Callers : pc[c] \in {"idle", "returned"})
            => m_inUseGPUMutex.owner = NoOwner)

\* both callers have been through the lock and have returned; the lock is free
C24_Witness ==
    /\ \A c \in LifeCallers : pc[c] = "returned" /\ Acquired(log[c]) /\ Released(log[c])
    /\ \E c \in LifeCallers : DecompFailed(log[c])
    /\ m_inUseGPUMutex.owner = NoOwner

\* the entries of a list that have, or have not, the type
OfType(list, type) == SelectSeq(list, LAMBDA e : e.kernelType = type)
NotOfType(list, type) == SelectSeq(list, LAMBDA e : e.kernelType # type)
Postfixes(list) == [i \in DOMAIN list |-> list[i].postfix]

\* C27 as stated, about the last call of InitializeDelayedKernels(type), with
\* list, feature and kernels as they were before the call.  For a registered
\* type not yet loaded whose loads all succeed, the call returns success,
\* has loaded each pending entry of the type once, in order, has removed
\* exactly these from the delayed list (the others stay, in order) and has
\* marked the type as loaded.  For a type already loaded or not registered it
\* changes nothing and returns success.  If a load fails it returns the
\* error and the type stays marked as not loaded.
C27_DelayedKernelsLoadedOnce ==
    vp.call.fn = "InitializeDelayedKernels" =>
        LET type == vp.call.type
            registered == type \in DOMAIN vp.call.feature
            pending == OfType(vp.call.list, type)
        IN  IF ~registered \/ vp.call.feature[type]
            THEN /\ vp.call.status = MOS_STATUS_SUCCESS
                 /\ vp.m_vpDelayLoadedBinaryList = vp.call.list
                 /\ vp.m_vpDelayLoadedFeatureSet = vp.call.feature
                 /\ vp.kernels = vp.call.kernels
            ELSE IF \A i \in DOMAIN pending : pending[i].postfix \in vp.call.loadOk
            THEN /\ vp.call.status = MOS_STATUS_SUCCESS
                 /\ vp.kernels = vp.call.kernels \o Postfixes(pending)
                 /\ vp.m_vpDelayLoadedBinaryList = NotOfType(vp.call.list, type)
                 /\ vp.m_vpDelayLoadedFeatureSet[type] = TRUE
            ELSE /\ vp.call.status \notin {MOS_STATUS_SUCCESS, NoStatus}
                 /\ vp.m_vpDelayLoadedFeatureSet[type] = FALSE

====
